---------------------------- MODULE Spec2Model ----------------------------
(***************************************************************************)
(* A model of repl-check: the line-pattern matcher (src/src/pattern.rs),   *)
(* the borrowed-or-owned line buffer (src/src/common.rs), and get_sessions *)
(* and the session driver run_sessions (src/src/lib.rs).                   *)
(*                                                                         *)
(* Five specifications share the variables, each pinning those of the      *)
(* others: SpecMatch (a call of matchit), SpecHoles (a call of with_holes, *)
(* its loop turn by turn), SpecCow (a LinesCow under pushes), SpecSessions *)
(* (get_sessions on a document) and Spec (run_sessions).                   *)
(*                                                                         *)
(* A line (&str) is a sequence of one-character strings, so that trimming, *)
(* concatenation and splitting are computed and not assumed.  An           *)
(* Option<T> is a sequence of length 0 (None) or 1 (Some(x)).              *)
(***************************************************************************)
EXTENDS Naturals, Sequences, FiniteSets

VARIABLES
    expected,   \* the argument `expected` of matchit or with_holes: the pattern
    actual,     \* their argument `actual`: the lines read
    result      \* None before the call, Some(what matchit returned) after it

VARIABLES
    sessions,             \* run_sessions' argument: session name -> Session
    todo,                 \* the sessions the for loop has not yet taken
    cur,                  \* session_name of the iteration under way
    bi,                   \* index of repl_block in session.blocks (from 1)
    ii,                   \* index of the CmdInvokation in the block (from 1)
    updated_repl_block,   \* the LinesCow of the block under way
    updated_repl_blocks,  \* the results of the session's finished blocks
    updated_blocks,       \* session name -> results, of the finished sessions
    pc,                   \* "loop", "block" or "done": where run_sessions is
    ret,                  \* None while running, Some(return value) after
    printed,              \* session name -> what process.reader has read
    sent,                 \* session name -> the lines written to its process
    log,                  \* the calls of matchit made so far, with arguments
    failed                \* the sessions in which a step returned an error

VARIABLES
    cow,        \* a LinesCow under test
    calls,      \* the pushes made on cow so far: [owned, lines], in call order
    taken       \* None, or Some(what maybe_owned returned) once cow is consumed

VARIABLES
    document,     \* get_sessions' argument: the blocks of the Pandoc document
    gs_sessions,  \* get_sessions' local `sessions`: session name -> Session
    gs_pos,       \* how many items of iter_code_blocks the for loop has taken
    gs_ret        \* None while get_sessions runs, Some(return value) after

VARIABLES
    wh_update,   \* the const parameter UPDATE of the call of with_holes
    wh_before,   \* None, or Some(what pattern(before_hole, actual) returned)
    wh_i,        \* the counter i of the loop over the split points
    wh_err,      \* the local `err`
    wh_tried,    \* the split points tried so far, in the order of the tries
    wh_ret       \* None while with_holes runs, Some(return value) after

matchVars == <<expected, actual, result>>

holeVars == <<wh_update, wh_before, wh_i, wh_err, wh_tried, wh_ret>>

parseVars == <<document, gs_sessions, gs_pos, gs_ret>>

cowVars == <<cow, calls, taken>>

driverVars ==
    <<sessions, todo, cur, bi, ii, updated_repl_block, updated_repl_blocks,
      updated_blocks, pc, ret, printed, sent, log, failed>>

vars == <<matchVars, driverVars, cowVars, parseVars, holeVars>>

----------------------------------------------------------------------------
(* Options, lines and whitespace *)

None == <<>>

Some(x) == <<x>>

\* char::is_whitespace, on the characters of the model's alphabet
IsWhitespace(c) == c \in {" ", "\t", "\r", "\n"}

RECURSIVE trim_end(_)
\* str::trim_end: the line without its trailing whitespace
trim_end(s) ==
    IF s = <<>> THEN <<>>
    ELSE IF IsWhitespace(s[Len(s)]) THEN trim_end(SubSeq(s, 1, Len(s) - 1))
    ELSE s

RECURSIVE trim_start(_)
\* str::trim_start: the line without its leading whitespace
trim_start(s) ==
    IF s = <<>> THEN <<>>
    ELSE IF IsWhitespace(s[1]) THEN trim_start(Tail(s))
    ELSE s

\* str::trim
trim(s) == trim_start(trim_end(s))

\* &x[i..] of a slice, i counted from 0
SliceFrom(x, i) == SubSeq(x, i + 1, Len(x))

\* &x[..i] of a slice, i counted from 0
SliceTo(x, i) == SubSeq(x, 1, i)

SkipHole == <<".", ".", ".">>

CaptureHole == <<"?", "?", "?">>

----------------------------------------------------------------------------
(* pattern.rs: ParseResult, match_lines, with_holes, matchit *)

\* Ok((remaining, updated)) of ParseResult
POk(rest, updated) ==
    [ok |-> TRUE, rest |-> rest, updated |-> updated, expected |-> None,
     got |-> None, panic |-> FALSE]

\* Err(ParseError {expected, got})
PErr(e, g) ==
    [ok |-> FALSE, rest |-> <<>>, updated |-> None, expected |-> e, got |-> g,
     panic |-> FALSE]

\* A panic: err.unwrap() on None
PPanic ==
    [ok |-> FALSE, rest |-> <<>>, updated |-> None, expected |-> None,
     got |-> None, panic |-> TRUE]

RECURSIVE match_lines_from_untrimmed(_, _, _)
\* match_lines comparing the lines as they are, trailing blanks included
match_lines_from_untrimmed(exp, act, i) ==
    IF i < Len(exp)
    THEN IF i = Len(act) THEN PErr(Some(exp[i + 1]), None)
         ELSE IF exp[i + 1] # act[i + 1]
              THEN PErr(Some(exp[i + 1]), Some(act[i + 1]))
              ELSE match_lines_from_untrimmed(exp, act, i + 1)
    ELSE POk(SliceFrom(act, i), None)

RECURSIVE match_lines_from(_, _, _)
\* The while loop of match_lines, entered with its counter at i (from 0)
match_lines_from(exp, act, i) ==
    IF i < Len(exp)
    THEN IF i = Len(act) THEN PErr(Some(exp[i + 1]), None)
         ELSE IF trim_end(exp[i + 1]) # trim_end(act[i + 1])
              THEN PErr(Some(exp[i + 1]), Some(act[i + 1]))
              ELSE match_lines_from(exp, act, i + 1)
    ELSE POk(SliceFrom(act, i), None)

match_lines(exp, act) == match_lines_from(exp, act, 0)

\* The hole line of a pass: "???" when UPDATE, "..." otherwise
HoleOf(UPDATE) == IF UPDATE THEN CaptureHole ELSE SkipHole

\* expected.iter().position(|line| line.trim() == hole): 0 when there is none,
\* else the (1-based) index of the first hole line
HolePosition(UPDATE, exp) ==
    LET idx == {k \in 1..Len(exp) : trim(exp[k]) = HoleOf(UPDATE)}
    IN  IF idx = {} THEN 0 ELSE CHOOSE k \in idx : \A j \in idx : k <= j

\* push_hole_content: the lines a hole contributes to the updated pattern
PushHoleContent(UPDATE, x, exp, h, leftover, i) ==
    IF UPDATE THEN x \o SliceTo(leftover, i) ELSE Append(x, exp[h])

\* The match on (updated_before, updated_after)
CombineUpdated(UPDATE, exp, h, leftover, i, updated_before, updated_after) ==
    LET before_hole == SliceTo(exp, h - 1)
        after_hole  == SliceFrom(exp, h)
    IN  IF updated_before # None /\ updated_after # None
        THEN Some(PushHoleContent(UPDATE, updated_before[1], exp, h, leftover, i)
                  \o updated_after[1])
        ELSE IF updated_before # None
        THEN Some(PushHoleContent(UPDATE, updated_before[1], exp, h, leftover, i)
                  \o after_hole)
        ELSE IF updated_after # None
        THEN Some(PushHoleContent(UPDATE, before_hole, exp, h, leftover, i)
                  \o updated_after[1])
        ELSE None

RECURSIVE with_holes(_, _, _)
RECURSIVE split_loop(_, _, _, _, _, _, _)
RECURSIVE split_loop_exclusive(_, _, _, _, _, _, _)
RECURSIVE split_loop_first_err(_, _, _, _, _, _, _)

\* The closure handed to with_holes as `pattern`: match_lines for the "..."
\* pass, and the "..." pass itself for the "???" pass (matchit)
Pattern(UPDATE, exp, act) ==
    IF UPDATE THEN with_holes(FALSE, exp, act) ELSE match_lines(exp, act)

\* The loop keeping the error of its first attempt
split_loop_first_err(UPDATE, exp, h, leftover, updated_before, i, err) ==
    IF i > Len(leftover)
    THEN IF err = None
         THEN PPanic
         ELSE err[1]
    ELSE LET r == with_holes(UPDATE, SliceFrom(exp, h), SliceFrom(leftover, i))
         IN  IF r.panic THEN r
             ELSE IF ~r.ok
             THEN split_loop_first_err(UPDATE, exp, h, leftover, updated_before,
                                       i + 1, IF err = None THEN Some(r) ELSE err)
             ELSE POk(r.rest,
                      CombineUpdated(UPDATE, exp, h, leftover, i,
                                     updated_before, r.updated))

\* The loop written `for i in 0..actual.len()`, its upper end excluded
split_loop_exclusive(UPDATE, exp, h, leftover, updated_before, i, err) ==
    IF i >= Len(leftover)
    THEN IF err = None
         THEN PPanic
         ELSE err[1]
    ELSE LET r == with_holes(UPDATE, SliceFrom(exp, h), SliceFrom(leftover, i))
         IN  IF r.panic THEN r
             ELSE IF ~r.ok
             THEN split_loop_exclusive(UPDATE, exp, h, leftover, updated_before,
                                       i + 1, Some(r))
             ELSE POk(r.rest,
                      CombineUpdated(UPDATE, exp, h, leftover, i,
                                     updated_before, r.updated))

\* The loop `for i in 0..=actual.len()` of with_holes, entered at i with the
\* last error in err; h is the hole's index, leftover what `before` left
split_loop(UPDATE, exp, h, leftover, updated_before, i, err) ==
    IF i > Len(leftover)
    THEN IF err = None
         THEN PPanic
         ELSE err[1]
    ELSE LET r == with_holes(UPDATE, SliceFrom(exp, h), SliceFrom(leftover, i))
         IN  IF r.panic THEN r
             ELSE IF ~r.ok
             THEN split_loop(UPDATE, exp, h, leftover, updated_before, i + 1, Some(r))
             ELSE POk(r.rest,
                      CombineUpdated(UPDATE, exp, h, leftover, i,
                                     updated_before, r.updated))

with_holes(UPDATE, exp, act) ==
    LET h == HolePosition(UPDATE, exp)
    IN  IF h = 0 THEN Pattern(UPDATE, exp, act)
        ELSE LET b == Pattern(UPDATE, SliceTo(exp, h - 1), act)
             IN  IF ~b.ok THEN b
                 ELSE split_loop(UPDATE, exp, h, b.rest, b.updated, 0, None)

\* Ok(updated) and Err(ParseError) of matchit
MOk(updated) ==
    [ok |-> TRUE, updated |-> updated, expected |-> None, got |-> None,
     panic |-> FALSE]

MErr(e, g) ==
    [ok |-> FALSE, updated |-> None, expected |-> e, got |-> g, panic |-> FALSE]

MPanic ==
    [ok |-> FALSE, updated |-> None, expected |-> None, got |-> None,
     panic |-> TRUE]

\* matchit reporting the last unconsumed line instead of the first
matchit_last_remaining(exp, act) ==
    LET r == with_holes(TRUE, exp, act)
    IN  IF r.panic THEN MPanic
        ELSE IF ~r.ok THEN MErr(r.expected, r.got)
        ELSE IF r.rest # <<>> THEN MErr(None, Some(r.rest[Len(r.rest)]))
        ELSE MOk(r.updated)

\* matchit returning Ok whatever input is left over
matchit_ignoring_rest(exp, act) ==
    LET r == with_holes(TRUE, exp, act)
    IN  IF r.panic THEN MPanic
        ELSE IF ~r.ok THEN MErr(r.expected, r.got)
        ELSE MOk(r.updated)

matchit(exp, act) ==
    LET r == with_holes(TRUE, exp, act)
    IN  IF r.panic THEN MPanic
        ELSE IF ~r.ok THEN MErr(r.expected, r.got)
        ELSE IF r.rest # <<>> THEN MErr(None, Some(r.rest[1]))
        ELSE MOk(r.updated)

----------------------------------------------------------------------------
(* The matcher applied to every pattern and input within the bounds *)

MaxExpected == 4

MaxActual == 3

\* The lines a pattern is made of: "a", "b " (trailing blank), " ..." (a
\* skip-hole after a blank) and "???"
ExpLines == { <<"a">>, <<"b", " ">>, <<" ", ".", ".", ".">>, <<"?", "?", "?">> }

\* The lines read from the process: "a " (trailing blank), "b", " a" (leading
\* blank)
ActLines == { <<"a", " ">>, <<"b">>, <<" ", "a">> }

SeqsUpTo(S, n) == UNION { [1..k -> S] : k \in 0..n }

\* get_sessions is not running
ParseIdle ==
    /\ document = <<>>
    /\ gs_sessions = <<>>
    /\ gs_pos = 0
    /\ gs_ret = <<>>

\* with_holes is not under test on its own
HoleIdle ==
    /\ wh_update = FALSE
    /\ wh_before = <<>>
    /\ wh_i = 0
    /\ wh_err = <<>>
    /\ wh_tried = <<>>
    /\ wh_ret = <<>>

\* No LinesCow is under test
CowIdle ==
    /\ cow = [owned |-> FALSE, lines |-> <<>>]
    /\ calls = <<>>
    /\ taken = <<>>

\* run_sessions is not running
DriverIdle ==
    /\ sessions = <<>>
    /\ todo = {}
    /\ cur = "none"
    /\ bi = 0
    /\ ii = 0
    /\ updated_repl_block = [owned |-> FALSE, lines |-> <<>>]
    /\ updated_repl_blocks = <<>>
    /\ updated_blocks = <<>>
    /\ pc = "idle"
    /\ ret = None
    /\ printed = <<>>
    /\ sent = <<>>
    /\ log = <<>>
    /\ failed = {}

InitMatch ==
    /\ expected \in SeqsUpTo(ExpLines, MaxExpected)
    /\ actual \in SeqsUpTo(ActLines, MaxActual)
    /\ result = None
    /\ DriverIdle
    /\ CowIdle
    /\ ParseIdle
    /\ HoleIdle

\* The call matchit(expected, actual)
CallMatchit ==
    /\ result = None
    /\ result' = Some(matchit(expected, actual))
    /\ UNCHANGED <<expected, actual>>
    /\ UNCHANGED <<driverVars, cowVars, parseVars, holeVars>>

NextMatch == CallMatchit

SpecMatch == InitMatch /\ [][NextMatch]_vars

----------------------------------------------------------------------------
(* What the matcher is specified to do, stated independently of its code *)

\* A hole line: "..." or "???" once surrounding whitespace is removed
IsSkipLine(l) == trim(l) = SkipHole

IsCaptureLine(l) == trim(l) = CaptureHole

IsHoleLine(l) == IsSkipLine(l) \/ IsCaptureLine(l)

HoleFree(exp) == \A k \in 1..Len(exp) : ~IsHoleLine(exp[k])

HasCapture(exp) == \E k \in 1..Len(exp) : IsCaptureLine(exp[k])

\* Two lines are equal modulo trailing whitespace
LineEq(e, a) == trim_end(e) = trim_end(a)

RECURSIVE Satisfiable(_, _)
\* Some assignment of a length >= 0 to each hole of exp makes exp equal to
\* act line by line
Satisfiable(exp, act) ==
    IF exp = <<>> THEN act = <<>>
    ELSE IF IsHoleLine(exp[1])
    THEN \E k \in 0..Len(act) : Satisfiable(Tail(exp), SliceFrom(act, k))
    ELSE /\ act # <<>>
         /\ LineEq(exp[1], act[1])
         /\ Satisfiable(Tail(exp), Tail(act))

RECURSIVE Rewrites(_, _)
\* The patterns obtained from exp by a satisfying assignment: each "???"
\* replaced by the lines it consumed, every other line kept
Rewrites(exp, act) ==
    IF exp = <<>> THEN (IF act = <<>> THEN {<<>>} ELSE {})
    ELSE IF IsCaptureLine(exp[1])
    THEN UNION { { SliceTo(act, k) \o r : r \in Rewrites(Tail(exp), SliceFrom(act, k)) }
                 : k \in 0..Len(act) }
    ELSE IF IsSkipLine(exp[1])
    THEN UNION { { <<exp[1]>> \o r : r \in Rewrites(Tail(exp), SliceFrom(act, k)) }
                 : k \in 0..Len(act) }
    ELSE IF act # <<>> /\ LineEq(exp[1], act[1])
    THEN { <<exp[1]>> \o r : r \in Rewrites(Tail(exp), Tail(act)) }
    ELSE {}

Min(S) == CHOOSE x \in S : \A y \in S : x <= y

\* The indices at which both sequences have a line and the lines differ
Differing(exp, act) ==
    { k \in 1..Len(exp) : k <= Len(act) /\ ~LineEq(exp[k], act[k]) }

----------------------------------------------------------------------------
(* Claims about matchit, checked under SpecMatch *)

\* C1: completeness of matchit: whenever some assignment of lengths to the
\* hole lines makes the pattern equal to the input, matchit returns Ok.
C1_Completeness ==
    (result # None /\ Satisfiable(expected, actual)) => result[1].ok

\* C2: capture-hole rewrite: a successful matchit on a pattern with a "???"
\* line returns Some(lines), the pattern with every "???" replaced by the
\* lines it consumed and every other line kept.
C2_CaptureRewrite ==
    (result # None /\ HasCapture(expected) /\ result[1].ok)
        => /\ result[1].updated # None
           /\ result[1].updated[1] \in Rewrites(expected, actual)

\* C3: exact matching: on a pattern without hole lines matchit returns
\* Ok(None) exactly when both sequences have the same length and are equal
\* line by line modulo trailing whitespace.
C3_ExactMatch ==
    (result # None /\ HoleFree(expected))
        => ((result[1].ok /\ result[1].updated = None)
            <=> (/\ Len(expected) = Len(actual)
                 /\ \A k \in 1..Len(expected) : LineEq(expected[k], actual[k])))

\* A hole-free pattern of two lines or more matched by an input that differs
\* from it in trailing whitespace
C3_Witness ==
    /\ result # None
    /\ HoleFree(expected)
    /\ Len(expected) >= 2
    /\ expected # actual
    /\ result[1].ok

\* C4: mismatch pinpointing: a failure on a hole-free pattern names the first
\* point of divergence: the first differing pair of lines, else the first
\* pattern line the input lacks, else the first input line past the pattern.
C4_MismatchPinpoint ==
    (result # None /\ HoleFree(expected) /\ ~result[1].ok)
        => LET D == Differing(expected, actual)
           IN  IF D # {}
               THEN /\ result[1].expected = Some(expected[Min(D)])
                    /\ result[1].got = Some(actual[Min(D)])
               ELSE IF Len(actual) < Len(expected)
               THEN /\ result[1].expected = Some(expected[Len(actual) + 1])
                    /\ result[1].got = None
               ELSE /\ Len(expected) < Len(actual)
                    /\ result[1].expected = None
                    /\ result[1].got = Some(actual[Len(expected) + 1])

\* A failure past a matching first line: a differing second pair, with a
\* third pair behind it, or two input lines left over
C4_Witness ==
    /\ result # None
    /\ HoleFree(expected)
    /\ ~result[1].ok
    /\ \/ /\ Len(expected) = 3
          /\ Len(actual) = 3
          /\ Differing(expected, actual) = {2, 3}
       \/ /\ Len(expected) = 1
          /\ Len(actual) = 3
          /\ Differing(expected, actual) = {}

\* C15: soundness of matchit: whenever it returns Ok, some assignment of a
\* length >= 0 to each hole line expands the pattern to a sequence as long as
\* the input whose literal lines equal the input's lines modulo trailing
\* whitespace; all of the input is consumed.
C15_Soundness ==
    (result # None /\ result[1].ok) => Satisfiable(expected, actual)

\* A skip-hole between two literal lines that takes one of three input lines
C15_Witness ==
    /\ result # None
    /\ result[1].ok
    /\ Len(expected) = 3
    /\ ~IsHoleLine(expected[1])
    /\ IsSkipLine(expected[2])
    /\ ~IsHoleLine(expected[3])
    /\ Len(actual) = 3

\* C19: totality of matchit.  Every call returns (the call is defined on
\* every input, and what it returns is Ok or Err, never a panic of
\* err.unwrap()); in both passes the recursion of with_holes is on a slice of
\* expected that is strictly shorter and within bounds; and the ParseError
\* returned never has both expected and got None.
C19_Totality ==
    /\ matchit(expected, actual).ok \in BOOLEAN
    /\ \A U \in BOOLEAN :
           HolePosition(U, expected) # 0 =>
               /\ HolePosition(U, expected) <= Len(expected)
               /\ Len(SliceFrom(expected, HolePosition(U, expected)))
                      < Len(expected)
    /\ result # None =>
           /\ ~result[1].panic
           /\ ~result[1].ok =>
                  (result[1].expected # None \/ result[1].got # None)

\* A call on a pattern that is a hole and no more, with nothing to read: the
\* split loop runs for i = 0 alone
C19_Witness ==
    /\ result # None
    /\ Len(expected) = 1
    /\ IsHoleLine(expected[1])
    /\ actual = <<>>
    /\ result[1].ok

\* The index of the first hole line of exp, of either kind
FirstHole(exp) == Min({ k \in 1..Len(exp) : IsHoleLine(exp[k]) })

\* The literal lines before the first hole of exp match the start of act
LiteralPrefixMatches(exp, act) ==
    /\ FirstHole(exp) - 1 <= Len(act)
    /\ \A k \in 1..(FirstHole(exp) - 1) : LineEq(exp[k], act[k])

\* C20: diagnostic shape with holes.  When matchit fails on a pattern with a
\* hole whose leading literal lines match the start of the input, the error
\* is never a pair of two lines: it is an expected line against the end of
\* the input, or the expected end of the input against a line.
C20_DiagnosticShape ==
    (/\ result # None
     /\ ~result[1].ok
     /\ ~HoleFree(expected)
     /\ LiteralPrefixMatches(expected, actual))
        => \/ result[1].expected # None /\ result[1].got = None
           \/ result[1].expected = None /\ result[1].got # None

\* A literal line, a skip-hole and a literal line that the input lacks: the
\* attempt at the first split point meets another line, the last one the end
\* of the input
C20_Witness ==
    /\ result # None
    /\ ~result[1].ok
    /\ Len(expected) = 3
    /\ ~IsHoleLine(expected[1])
    /\ IsSkipLine(expected[2])
    /\ ~IsHoleLine(expected[3])
    /\ Len(actual) = 2
    /\ LineEq(expected[1], actual[1])
    /\ ~LineEq(expected[3], actual[2])
    /\ result[1].expected = Some(expected[3])
    /\ result[1].got = None

----------------------------------------------------------------------------
(* One call of with_holes, its loop over the split points taken turn by    *)
(* turn; the recursive calls are with_holes above                          *)

MaxHoleExpected == 3

MaxHoleActual == 3

InitHoles ==
    /\ wh_update \in BOOLEAN
    /\ expected \in SeqsUpTo(ExpLines, MaxHoleExpected)
    /\ actual \in SeqsUpTo(ActLines, MaxHoleActual)
    /\ result = None
    /\ wh_before = None
    /\ wh_i = 0
    /\ wh_err = None
    /\ wh_tried = <<>>
    /\ wh_ret = None
    /\ DriverIdle
    /\ CowIdle
    /\ ParseIdle

\* hole_idx, counted from 1; 0 when position() returns None
hole_idx == HolePosition(wh_update, expected)

before_hole == SliceTo(expected, hole_idx - 1)

after_hole == SliceFrom(expected, hole_idx)

\* `None => pattern(expected, actual)`
NoHole ==
    /\ wh_ret = None
    /\ hole_idx = 0
    /\ wh_ret' = Some(Pattern(wh_update, expected, actual))
    /\ UNCHANGED <<wh_update, wh_before, wh_i, wh_err, wh_tried>>
    /\ UNCHANGED <<matchVars, driverVars, cowVars, parseVars>>

\* `let (actual, updated_before) = pattern(before_hole, actual)?;`
MatchBefore ==
    /\ wh_ret = None
    /\ hole_idx # 0
    /\ wh_before = None
    /\ LET b == Pattern(wh_update, before_hole, actual)
       IN  /\ wh_before' = Some(b)
           /\ wh_ret' = IF b.ok THEN None ELSE Some(b)
    /\ UNCHANGED <<wh_update, wh_i, wh_err, wh_tried>>
    /\ UNCHANGED <<matchVars, driverVars, cowVars, parseVars>>

\* One turn of the loop taking the split points from len(leftover) down to 0
TrySplitDescending ==
    /\ wh_ret = None
    /\ wh_before # None
    /\ wh_i <= Len(wh_before[1].rest)
    /\ LET leftover == wh_before[1].rest
           j == Len(leftover) - wh_i
           r == with_holes(wh_update, after_hole, SliceFrom(leftover, j))
       IN  /\ wh_tried' = Append(wh_tried, j)
           /\ IF r.panic
              THEN /\ wh_ret' = Some(r)
                   /\ UNCHANGED <<wh_i, wh_err>>
              ELSE IF ~r.ok
              THEN /\ wh_err' = Some(r)
                   /\ wh_i' = wh_i + 1
                   /\ wh_ret' = wh_ret
              ELSE /\ wh_ret' =
                          Some(POk(r.rest,
                                   CombineUpdated(wh_update, expected, hole_idx,
                                                  leftover, j,
                                                  wh_before[1].updated,
                                                  r.updated)))
                   /\ UNCHANGED <<wh_i, wh_err>>
    /\ UNCHANGED <<wh_update, wh_before>>
    /\ UNCHANGED <<matchVars, driverVars, cowVars, parseVars>>

\* One turn of the loop that keeps the first error in err
TrySplitFirstErr ==
    /\ wh_ret = None
    /\ wh_before # None
    /\ wh_i <= Len(wh_before[1].rest)
    /\ LET leftover == wh_before[1].rest
           r == with_holes(wh_update, after_hole, SliceFrom(leftover, wh_i))
       IN  /\ wh_tried' = Append(wh_tried, wh_i)
           /\ IF r.panic
              THEN /\ wh_ret' = Some(r)
                   /\ UNCHANGED <<wh_i, wh_err>>
              ELSE IF ~r.ok
              THEN /\ wh_err' = IF wh_err = None THEN Some(r) ELSE wh_err
                   /\ wh_i' = wh_i + 1
                   /\ wh_ret' = wh_ret
              ELSE /\ wh_ret' =
                          Some(POk(r.rest,
                                   CombineUpdated(wh_update, expected, hole_idx,
                                                  leftover, wh_i,
                                                  wh_before[1].updated,
                                                  r.updated)))
                   /\ UNCHANGED <<wh_i, wh_err>>
    /\ UNCHANGED <<wh_update, wh_before>>
    /\ UNCHANGED <<matchVars, driverVars, cowVars, parseVars>>

\* One turn of `for i in 0..=actual.len()`: the match on the recursive call
TrySplit ==
    /\ wh_ret = None
    /\ wh_before # None
    /\ wh_i <= Len(wh_before[1].rest)
    /\ LET leftover == wh_before[1].rest
           r == with_holes(wh_update, after_hole, SliceFrom(leftover, wh_i))
       IN  /\ wh_tried' = Append(wh_tried, wh_i)
           /\ IF r.panic
              THEN /\ wh_ret' = Some(r)
                   /\ UNCHANGED <<wh_i, wh_err>>
              ELSE IF ~r.ok
              THEN /\ wh_err' = Some(r)
                   /\ wh_i' = wh_i + 1
                   /\ wh_ret' = wh_ret
              ELSE /\ wh_ret' =
                          Some(POk(r.rest,
                                   CombineUpdated(wh_update, expected, hole_idx,
                                                  leftover, wh_i,
                                                  wh_before[1].updated,
                                                  r.updated)))
                   /\ UNCHANGED <<wh_i, wh_err>>
    /\ UNCHANGED <<wh_update, wh_before>>
    /\ UNCHANGED <<matchVars, driverVars, cowVars, parseVars>>

\* `Err(err.unwrap())` after the loop
LoopEnd ==
    /\ wh_ret = None
    /\ wh_before # None
    /\ wh_i > Len(wh_before[1].rest)
    /\ wh_ret' = Some(IF wh_err = None THEN PPanic ELSE wh_err[1])
    /\ UNCHANGED <<wh_update, wh_before, wh_i, wh_err, wh_tried>>
    /\ UNCHANGED <<matchVars, driverVars, cowVars, parseVars>>

NextHoles ==
    \/ NoHole
    \/ MatchBefore
    \/ TrySplit
    \/ LoopEnd

SpecHoles == InitHoles /\ [][NextHoles]_vars

\* What the recursive call of the split point i returns, leftover being what
\* the before-segment left
Attempt(leftover, i) ==
    with_holes(wh_update, after_hole, SliceFrom(leftover, i))

\* The split points at which the after-segment matches
OkSplits(leftover) == { i \in 0..Len(leftover) : Attempt(leftover, i).ok }

\* C16: lazy split choice.  For a hole whose before-segment matched, the
\* split points are tried in increasing order from 0, at most up to
\* len(leftover); the one accepted is the smallest at which the recursive
\* match of the after-segment returns Ok, none beyond it is tried, and the
\* remaining input returned is that of this first successful attempt.
C16_LazySplit ==
    (hole_idx # 0 /\ wh_before # None /\ wh_before[1].ok) =>
        LET leftover == wh_before[1].rest
        IN  /\ Len(wh_tried) <= Len(leftover) + 1
            /\ \A k \in 1..Len(wh_tried) : wh_tried[k] = k - 1
            /\ \A k \in 1..Len(wh_tried) :
                   k < Len(wh_tried) => ~Attempt(leftover, wh_tried[k]).ok
            /\ (wh_ret # None /\ OkSplits(leftover) # {}) =>
                   /\ wh_ret[1].ok
                   /\ wh_tried[Len(wh_tried)] = Min(OkSplits(leftover))
                   /\ wh_ret[1].rest
                          = Attempt(leftover, Min(OkSplits(leftover))).rest

\* A hole that takes one line: the try at 0 fails, the one at 1 is accepted
\* and leaves a line over, and 2, which would match as well, is never tried
C16_Witness ==
    /\ hole_idx # 0
    /\ wh_before # None /\ wh_before[1].ok
    /\ wh_ret # None /\ wh_ret[1].ok
    /\ wh_tried = <<0, 1>>
    /\ 2 \in OkSplits(wh_before[1].rest)
    /\ Len(wh_ret[1].rest) = 1

\* C17: error of a failed hole.  When the before-segment matches and the
\* after-segment matches at no split point, with_holes returns the error of
\* the last attempt, the one at len(leftover), against the empty input; when
\* the before-segment fails, its error is returned as it is and no split
\* point is tried.
C17_LastError ==
    (hole_idx # 0 /\ wh_ret # None) =>
        LET b == Pattern(wh_update, before_hole, actual)
        IN  /\ ~b.ok => (wh_ret[1] = b /\ wh_tried = <<>>)
            /\ (b.ok /\ OkSplits(b.rest) = {}) =>
                   /\ ~wh_ret[1].ok
                   /\ wh_ret[1] = with_holes(wh_update, after_hole, <<>>)
                   /\ wh_ret[1] = Attempt(b.rest, Len(b.rest))
                   /\ Len(wh_tried) = Len(b.rest) + 1

\* A hole of which the first and the last attempt end in different errors
C17_Witness ==
    /\ hole_idx # 0
    /\ wh_before # None /\ wh_before[1].ok
    /\ wh_ret # None /\ ~wh_ret[1].ok
    /\ Len(wh_tried) >= 2
    /\ Attempt(wh_before[1].rest, 0) # wh_ret[1]

----------------------------------------------------------------------------
(* common.rs: LinesCow *)

\* LinesCow::new(): Borrowed(Vec::new())
new == [owned |-> FALSE, lines |-> <<>>]

\* LinesCow::push_borrowed: both variants extend their list
push_borrowed(c, lines) == [owned |-> c.owned, lines |-> c.lines \o lines]

\* LinesCow::push_owned: a Borrowed buffer becomes Owned, then is extended
\* push_owned promoting only when it has a line to push
push_owned_nonempty(c, lines) ==
    [owned |-> c.owned \/ lines # <<>>, lines |-> c.lines \o lines]

\* push_owned starting an empty Vec<String> when it promotes
push_owned_fresh(c, lines) ==
    [owned |-> TRUE, lines |-> IF c.owned THEN c.lines \o lines ELSE lines]

push_owned(c, lines) == [owned |-> TRUE, lines |-> c.lines \o lines]

\* LinesCow::maybe_owned
maybe_owned(c) == IF c.owned THEN Some(c.lines) ELSE None

----------------------------------------------------------------------------
(* A LinesCow driven through every sequence of pushes within the bounds *)

MaxCalls == 3

\* The slices pushed: empty, one line, two lines
SliceSet == { <<>>, <<<<"a">>>>, <<<<"b", " ">>, <<"a">>>> }

\* matchit is not under test
MatchIdle ==
    /\ expected = <<>>
    /\ actual = <<>>
    /\ result = None

InitCow ==
    /\ cow = new
    /\ calls = <<>>
    /\ taken = None
    /\ MatchIdle
    /\ DriverIdle
    /\ ParseIdle
    /\ HoleIdle

\* cow.push_borrowed(lines)
PushBorrowed ==
    /\ taken = None
    /\ Len(calls) < MaxCalls
    /\ \E lines \in SliceSet :
          /\ cow' = push_borrowed(cow, lines)
          /\ calls' = Append(calls, [owned |-> FALSE, lines |-> lines])
    /\ UNCHANGED <<taken, matchVars, driverVars, parseVars, holeVars>>

\* cow.push_owned(lines)
PushOwned ==
    /\ taken = None
    /\ Len(calls) < MaxCalls
    /\ \E lines \in SliceSet :
          /\ cow' = push_owned(cow, lines)
          /\ calls' = Append(calls, [owned |-> TRUE, lines |-> lines])
    /\ UNCHANGED <<taken, matchVars, driverVars, parseVars, holeVars>>

\* cow.maybe_owned(), which consumes cow
MaybeOwned ==
    /\ taken = None
    /\ taken' = Some(maybe_owned(cow))
    /\ UNCHANGED <<cow, calls, matchVars, driverVars, parseVars, holeVars>>

NextCow ==
    \/ PushBorrowed
    \/ PushOwned
    \/ MaybeOwned

SpecCow == InitCow /\ [][NextCow]_vars

\* Some push_owned was among the calls
OwnedCalled == \E k \in 1..Len(calls) : calls[k].owned

RECURSIVE Concat(_)
\* The slices of the calls cs, one after the other
Concat(cs) == IF cs = <<>> THEN <<>> ELSE cs[1].lines \o Concat(Tail(cs))

\* C11: promotion is one-way.  After any sequence of pushes on a new LinesCow
\* the buffer is Owned exactly when push_owned was called at least once, be
\* it with an empty slice; an Owned buffer never becomes Borrowed again; and
\* maybe_owned returns None exactly when only push_borrowed was called.
C11_OneWayPromotion ==
    /\ [](cow.owned <=> OwnedCalled)
    /\ [](taken # None => (taken[1] = None <=> ~OwnedCalled))
    /\ [][cow.owned => cow'.owned]_vars

\* A buffer promoted by push_owned(&[]) between two push_borrowed, then taken
C11_Witness ==
    /\ Len(calls) = 3
    /\ ~calls[1].owned /\ calls[1].lines # <<>>
    /\ calls[2].owned /\ calls[2].lines = <<>>
    /\ ~calls[3].owned /\ calls[3].lines # <<>>
    /\ cow.owned
    /\ taken # None /\ taken[1] # None

\* C12: the lines held, in either variant, are the concatenation of all the
\* pushed slices in call order: promotion loses, duplicates and reorders
\* nothing, and maybe_owned hands out those very lines.
C12_ContentPreserved ==
    /\ cow.lines = Concat(calls)
    /\ (taken # None /\ taken[1] # None) => taken[1][1] = Concat(calls)

\* Lines pushed borrowed, a promotion with lines, lines pushed after it
C12_Witness ==
    /\ Len(calls) = 3
    /\ ~calls[1].owned /\ Len(calls[1].lines) = 2
    /\ calls[2].owned /\ Len(calls[2].lines) = 1
    /\ ~calls[3].owned /\ Len(calls[3].lines) = 2
    /\ taken = Some(Some(calls[1].lines \o calls[2].lines \o calls[3].lines))

----------------------------------------------------------------------------
(* Strings of the driver: prompts, transcript lines, process output *)

P1 == <<"1", ">">>

P2 == <<"2", ">">>

\* The prompt regex of a session, as the set of strings it matches
NumPrompt == {P1, P2}

\* Regex::new(&regex::escape(x)): matches the literal x only
EscapedRegex(x) == {x}

RECURSIVE StrLines(_)
\* str::lines(): split at "\n", a "\r" before the "\n" dropped, no empty last
\* line
StrLines(s) ==
    LET nl == {k \in 1..Len(s) : s[k] = "\n"}
    IN  IF s = <<>> THEN <<>>
        ELSE IF nl = {} THEN <<s>>
        ELSE LET k    == Min(nl)
                 line == SubSeq(s, 1, k - 1)
                 bare == IF line # <<>> /\ line[Len(line)] = "\r"
                         THEN SubSeq(line, 1, Len(line) - 1) ELSE line
             IN  <<bare>> \o StrLines(SubSeq(s, k + 1, Len(s)))

RECURSIVE JoinLines(_)
\* x.into_iter().reduce(|x, y| x + "\n" + &y), of a list that is not empty
JoinLines(x) ==
    IF Len(x) = 1 THEN x[1]
    ELSE JoinLines(SubSeq(x, 1, Len(x) - 1)) \o <<"\n">> \o x[Len(x)]

----------------------------------------------------------------------------
(* lib.rs: repl_block_to_cmd_invocations.  Its body is unimplemented!() in  *)
(* the source; it is modelled from the specification's CmdInvocation: a    *)
(* transcript line that starts with a match of the block's prompt regex is *)
(* a command, the lines up to the next one are its expected output, the    *)
(* lines before the first one the initial output.  The kind of prompt      *)
(* (Fixed, Flexible, Updatable), which the specification does not derive,  *)
(* is given with the block.                                                *)

IsPrefix(p, l) == Len(p) <= Len(l) /\ SubSeq(l, 1, Len(p)) = p

\* Some(the prompt the line starts with), or None
PromptOf(blk, l) ==
    LET ps == {p \in blk.prompt : IsPrefix(p, l)}
    IN  IF ps = {} THEN None ELSE Some(CHOOSE p \in ps : TRUE)

PromptIdx(blk) ==
    {k \in 1..Len(blk.expected) : PromptOf(blk, blk.expected[k]) # None}

\* The index of the next command line after line k, or one past the block
NextPromptIdx(blk, k) ==
    LET later == {j \in PromptIdx(blk) : j > k}
    IN  IF later = {} THEN Len(blk.expected) + 1 ELSE Min(later)

\* The CmdInvokation of the command on line k
CmdInvokation(blk, k) ==
    LET l == blk.expected[k]
        p == PromptOf(blk, l)[1]
    IN  [prompt |-> [kind |-> blk.kind,
                     text |-> IF blk.kind = "Fixed" THEN p ELSE <<>>],
         cmd |-> SliceFrom(l, Len(p)),
         entire_prompt_line |-> l,
         expected_output |-> SubSeq(blk.expected, k + 1, NextPromptIdx(blk, k) - 1)]

repl_block_to_cmd_invocations(blk) ==
    LET idx == PromptIdx(blk)
        nth(n) == CHOOSE k \in idx : Cardinality({j \in idx : j < k}) = n - 1
    IN  [initial_output |-> SliceTo(blk.expected, NextPromptIdx(blk, 0) - 1),
         cmd_invocations |-> [n \in 1..Cardinality(idx) |-> CmdInvokation(blk, nth(n))]]

----------------------------------------------------------------------------
(* The documents run_sessions is applied to, and what a process may write *)

\* The blocks of a session, at most
MaxBlocks == 2

\* The pieces of output, each ending in a prompt, one read_until may consume
MaxPieces == 2

\* "1>x", "2>y": a prompt followed by a command
CmdX == P1 \o <<"x">>

CmdY == P2 \o <<"y">>

Block(kind, lines) ==
    [prompt |-> NumPrompt, prompt_char |-> <<":">>, kind |-> kind, expected |-> lines]

BlockSet ==
    { Block("Flexible",  << CmdX, <<"a">> >>),
      Block("Fixed",     << <<"a">>, CmdX, <<"b">> >>),
      Block("Updatable", << CmdX, <<"a">> >>),
      Block("Flexible",  << CmdX, <<"a">>, CmdY >>),
      Block("Flexible",  << CaptureHole, <<"a">>, CmdX >>),
      Block("Flexible",  << <<"a">> >>) }

SessionSet ==
    { [shell_cmd |-> <<"s", "h">>, blocks |-> b] :
        b \in SeqsUpTo(BlockSet, MaxBlocks) \ {<<>>} }

\* A second session of the same document has one block
SecondSessionSet == { x \in SessionSet : Len(x.blocks) = 1 }

\* The documents: no session, the session "s1", or "s1" and "s2"
Documents ==
    {<<>>}
    \cup { [n \in {"s1"} |-> x] : x \in SessionSet }
    \cup { [n \in {"s1", "s2"} |-> IF n = "s1" THEN x ELSE y] :
             x \in SessionSet, y \in SecondSessionSet }

\* What a process writes before it waits for input: "", "a\n" or "b\r\na\n"
TextSet ==
    { <<>>, <<"a", "\n">>, <<"b", "\r", "\n", "a", "\n">> }

\* A piece of output: text followed by a prompt
ChunkSet ==
    { [text |-> t, prompt |-> P1] : t \in TextSet } \cup { [text |-> <<>>, prompt |-> P2] }

----------------------------------------------------------------------------
(* lib.rs: run_sessions, and the process behind rexpect *)

\* Ok(updated_blocks)
ROk(blocks) ==
    [ok |-> TRUE, kind |-> "ok", expected |-> None, got |-> None,
     blocks |-> blocks]

\* Err(e): kind is "spawn", "transport" (read_until) or "match" (matchit)
RErr(kind, e, g) ==
    [ok |-> FALSE, kind |-> kind, expected |-> e, got |-> g, blocks |-> <<>>]

\* An error that ends the session under way only: the loop goes on
FailIsolated(e) ==
    /\ pc' = "loop"
    /\ ret' = ret

\* An error that is dropped: the session goes on where it is
FailContinue(e) ==
    /\ pc' = pc
    /\ ret' = ret

\* The `?` of run_sessions: the function returns the error
Fail(e) ==
    /\ pc' = "done"
    /\ ret' = Some(e)

CurBlock == sessions[cur].blocks[bi]

CurInvocations == repl_block_to_cmd_invocations(CurBlock)

\* prompt_regex of the invocation: the escaped literal for Fixed, else the
\* block's regex
PromptRegex(blk, inv) ==
    IF inv.prompt.kind = "Fixed" THEN EscapedRegex(inv.prompt.text) ELSE blk.prompt

\* What read_until(regex) may read: pieces of output of which the last, and
\* only the last, ends in a match of the regex
Readable(regex) ==
    { ps \in SeqsUpTo(ChunkSet, MaxPieces) :
        /\ ps # <<>>
        /\ ps[Len(ps)].prompt \in regex
        /\ \A k \in 1..(Len(ps) - 1) : ps[k].prompt \notin regex }

RECURSIVE BeforeText(_)
\* The text in front of the match: the earlier pieces, their unmatched
\* prompts included, and the text of the last piece
BeforeText(ps) ==
    IF Len(ps) = 1 THEN ps[1].text
    ELSE ps[1].text \o ps[1].prompt \o BeforeText(Tail(ps))

\* The lines matchit is given as `expected` (lib.rs:224)
MatchPattern(ci, inv) == ci.initial_output

\* What the invocation appends for its prompt line (lib.rs:232-239)
PushPromptLine(c, inv, actual_prompt) ==
    IF inv.prompt.kind = "Updatable"
    THEN push_owned(c, <<actual_prompt \o inv.cmd>>)
    ELSE push_borrowed(c, <<inv.entire_prompt_line>>)

\* What the invocation appends for the output it matched (lib.rs:224-230)
PushMatched(c, ci, m) ==
    IF m.updated # None THEN push_owned(c, m.updated[1])
    ELSE push_borrowed(c, ci.initial_output)

\* The block's text whenever the buffer holds a line, owned or not
block_result_any(c) ==
    IF c.lines = <<>> THEN Some(None) ELSE Some(Some(JoinLines(c.lines)))

\* updated_repl_block.maybe_owned().map(|x| ...reduce(...).unwrap()):
\* Some(Some(text)), Some(None), or None when unwrap() panics
block_result(c) ==
    LET o == maybe_owned(c)
    IN  IF o = None THEN Some(None)
        ELSE IF o[1] = <<>> THEN None
        ELSE Some(Some(JoinLines(o[1])))

\* The for loop takes the next session (a HashMap yields them in any order)
\* and rexpect::spawn succeeds
SpawnOk ==
    /\ pc = "loop"
    /\ \E s \in todo :
         /\ todo' = todo \ {s}
         /\ cur' = s
    /\ bi' = 1
    /\ ii' = 1
    /\ updated_repl_block' = new
    /\ updated_repl_blocks' = <<>>
    /\ pc' = "block"
    /\ UNCHANGED <<sessions, updated_blocks, ret, printed, sent, log, failed>>
    /\ UNCHANGED <<matchVars, cowVars, parseVars, holeVars>>

\* rexpect::spawn fails
SpawnFail ==
    /\ pc = "loop"
    /\ \E s \in todo :
         /\ todo' = todo \ {s}
         /\ cur' = s
         /\ failed' = failed \cup {s}
    /\ Fail(RErr("spawn", None, None))
    /\ UNCHANGED <<sessions, bi, ii, updated_repl_block,
                   updated_repl_blocks, updated_blocks, printed, sent, log>>
    /\ UNCHANGED <<matchVars, cowVars, parseVars, holeVars>>

\* One pass of the loop over cmd_invocations in which read_until returns:
\* the process has written ps, whose last piece ends in the prompt
Invoke ==
    /\ pc = "block"
    /\ bi <= Len(sessions[cur].blocks)
    /\ ii <= Len(CurInvocations.cmd_invocations)
    /\ LET ci  == CurInvocations
           inv == ci.cmd_invocations[ii]
       IN  \E ps \in Readable(PromptRegex(CurBlock, inv)) :
             LET before_prompt == BeforeText(ps)
                 actual_prompt == ps[Len(ps)].prompt
                 read_lines    == StrLines(before_prompt)
                 m             == matchit(MatchPattern(ci, inv), read_lines)
             IN  /\ printed' = [printed EXCEPT ![cur] = @ \o ps]
                 /\ log' = Append(log, [session |-> cur, block |-> bi, inv |-> ii,
                                        pattern |-> MatchPattern(ci, inv),
                                        lines |-> read_lines,
                                        prompt |-> actual_prompt,
                                        res |-> m])
                 /\ IF m.panic
                    THEN /\ pc' = "done"
                         /\ ret' = Some(RErr("panic", None, None))
                         /\ UNCHANGED <<ii, updated_repl_block, failed>>
                    ELSE IF ~m.ok
                    THEN /\ Fail(RErr("match", m.expected, m.got))
                         /\ failed' = failed \cup {cur}
                         /\ UNCHANGED <<ii, updated_repl_block>>
                    ELSE /\ updated_repl_block' =
                                PushPromptLine(PushMatched(updated_repl_block, ci, m),
                                               inv, actual_prompt)
                         /\ ii' = ii + 1
                         /\ UNCHANGED <<pc, ret, failed>>
    /\ UNCHANGED <<sessions, todo, cur, bi, updated_repl_blocks, updated_blocks,
                   sent>>
    /\ UNCHANGED <<matchVars, cowVars, parseVars, holeVars>>

\* read_until fails: the process writes no match of the regex within
\* TIMEOUT_MS
ReadTimeout ==
    /\ pc = "block"
    /\ bi <= Len(sessions[cur].blocks)
    /\ ii <= Len(CurInvocations.cmd_invocations)
    /\ Fail(RErr("transport", None, None))
    /\ failed' = failed \cup {cur}
    /\ UNCHANGED <<sessions, todo, cur, bi, ii, updated_repl_block,
                   updated_repl_blocks, updated_blocks, printed, sent, log>>
    /\ UNCHANGED <<matchVars, cowVars, parseVars, holeVars>>

\* The end of the loop over cmd_invocations: the block's result is pushed
FinishBlock ==
    /\ pc = "block"
    /\ bi <= Len(sessions[cur].blocks)
    /\ ii > Len(CurInvocations.cmd_invocations)
    /\ LET r == block_result(updated_repl_block)
       IN  IF r = None
           THEN /\ pc' = "done"
                /\ ret' = Some(RErr("panic", None, None))
                /\ UNCHANGED <<bi, ii, updated_repl_block, updated_repl_blocks>>
           ELSE /\ updated_repl_blocks' = Append(updated_repl_blocks, r[1])
                /\ bi' = bi + 1
                /\ ii' = 1
                /\ updated_repl_block' = new
                /\ UNCHANGED <<pc, ret>>
    /\ UNCHANGED <<sessions, todo, cur, updated_blocks, printed, sent,
                   log, failed>>
    /\ UNCHANGED <<matchVars, cowVars, parseVars, holeVars>>

\* The end of the loop over session.blocks: updated_blocks.insert(..)
FinishSession ==
    /\ pc = "block"
    /\ bi > Len(sessions[cur].blocks)
    /\ updated_blocks' =
           [s \in DOMAIN updated_blocks \cup {cur} |->
               IF s = cur THEN updated_repl_blocks ELSE updated_blocks[s]]
    /\ pc' = "loop"
    /\ UNCHANGED <<sessions, todo, cur, bi, ii, updated_repl_block,
                   updated_repl_blocks, ret, printed, sent, log, failed>>
    /\ UNCHANGED <<matchVars, cowVars, parseVars, holeVars>>

\* The end of the loop over sessions: Ok(updated_blocks)
ReturnOk ==
    /\ pc = "loop"
    /\ todo = {}
    /\ pc' = "done"
    /\ ret' = Some(ROk(updated_blocks))
    /\ UNCHANGED <<sessions, todo, cur, bi, ii, updated_repl_block,
                   updated_repl_blocks, updated_blocks, printed, sent,
                   log, failed>>
    /\ UNCHANGED <<matchVars, cowVars, parseVars, holeVars>>

\* run_sessions(sessions) is called
Init ==
    /\ sessions \in Documents
    /\ todo = DOMAIN sessions
    /\ cur = "none"
    /\ bi = 0
    /\ ii = 0
    /\ updated_repl_block = new
    /\ updated_repl_blocks = <<>>
    /\ updated_blocks = <<>>
    /\ pc = "loop"
    /\ ret = None
    /\ printed = [s \in DOMAIN sessions |-> <<>>]
    /\ sent = [s \in DOMAIN sessions |-> <<>>]
    /\ log = <<>>
    /\ failed = {}
    /\ expected = <<>>
    /\ actual = <<>>
    /\ result = None
    /\ CowIdle
    /\ ParseIdle
    /\ HoleIdle

Next ==
    \/ SpawnOk
    \/ SpawnFail
    \/ Invoke
    \/ ReadTimeout
    \/ FinishBlock
    \/ FinishSession
    \/ ReturnOk

Spec == Init /\ [][Next]_vars

----------------------------------------------------------------------------
(* What the driver is specified to do, stated over the transcript *)

\* The CmdInvokations of block b of session s
InvsOf(s, b) == repl_block_to_cmd_invocations(sessions[s].blocks[b])

RECURSIVE AllLines(_)
\* The transcript lines of a list of blocks, in order
AllLines(blocks) ==
    IF blocks = <<>> THEN <<>> ELSE blocks[1].expected \o AllLines(Tail(blocks))

\* The session's transcript read as one block
Transcript(s) ==
    repl_block_to_cmd_invocations(
        [sessions[s].blocks[1] EXCEPT !.expected = AllLines(sessions[s].blocks)])

\* The output recorded before the first command and after each command
RecordedOutputs(s) ==
    LET t == Transcript(s)
    IN  <<t.initial_output>>
        \o [k \in 1..Len(t.cmd_invocations) |-> t.cmd_invocations[k].expected_output]

\* The commands of the transcript, trimmed
Commands(s) ==
    LET t == Transcript(s)
    IN  [k \in 1..Len(t.cmd_invocations) |-> trim(t.cmd_invocations[k].cmd)]

\* The process of session s is one that writes the recorded output, and a
\* prompt, when it starts and after each line it receives, and nothing else;
\* it has written all it has to
Faithful(s) ==
    LET rec == RecordedOutputs(s)
    IN  /\ Len(printed[s]) = 1 + Len(sent[s])
        /\ Len(printed[s]) <= Len(rec)
        /\ \A k \in 1..Len(printed[s]) : StrLines(printed[s][k].text) = rec[k]

\* The positions (k, j) at which line j of piece k is not the recorded line
Deviations(s) ==
    LET rec == RecordedOutputs(s)
    IN  { kj \in (1..Len(printed[s])) \X (1..4) :
            /\ kj[1] <= Len(rec)
            /\ kj[2] <= Len(rec[kj[1]])
            /\ kj[2] <= Len(StrLines(printed[s][kj[1]].text))
            /\ ~LineEq(rec[kj[1]][kj[2]], StrLines(printed[s][kj[1]].text)[kj[2]]) }

\* The process of session s is faithful but for one line, written in place of
\* a literal line of a recorded output that has no hole
DeviatesInOneLine(s) ==
    LET rec == RecordedOutputs(s)
    IN  /\ Len(printed[s]) = 1 + Len(sent[s])
        /\ Len(printed[s]) <= Len(rec)
        /\ \A k \in 1..Len(printed[s]) :
              /\ Len(StrLines(printed[s][k].text)) = Len(rec[k])
              /\ HoleFree(rec[k])
        /\ Cardinality(Deviations(s)) = 1

\* The sessions whose blocks' results are all in hand
Finished == DOMAIN updated_blocks

HasUpdatable(s, b) ==
    \E i \in 1..Len(InvsOf(s, b).cmd_invocations) :
        InvsOf(s, b).cmd_invocations[i].prompt.kind = "Updatable"

\* The calls of matchit made for block b of session s, as indices of log
CallsOf(s, b) == {k \in 1..Len(log) : log[k].session = s /\ log[k].block = b}

\* The call of matchit made for invocation i of block b of session s
CallOf(s, b, i) == log[CHOOSE k \in CallsOf(s, b) : log[k].inv = i]

RECURSIVE IsSubseq(_, _)
\* The lines of x occur in y, in the order of x
IsSubseq(x, y) ==
    IF x = <<>> THEN TRUE
    ELSE IF y = <<>> THEN FALSE
    ELSE IF x[1] = y[1] THEN IsSubseq(Tail(x), Tail(y))
    ELSE IsSubseq(x, Tail(y))

RECURSIVE KeptLines(_, _, _, _)
\* The lines of block b of session s, from line k on, that a rewrite has to
\* keep: not the capture-holes; n commands precede line k; the line of a
\* command with an Updatable prompt is the observed prompt and the command
KeptLines(s, b, k, n) ==
    LET blk == sessions[s].blocks[b]
        l   == blk.expected[k]
    IN  IF k > Len(blk.expected) THEN <<>>
        ELSE IF PromptOf(blk, l) # None
        THEN <<IF blk.kind = "Updatable"
               THEN CallOf(s, b, n + 1).prompt
                    \o InvsOf(s, b).cmd_invocations[n + 1].cmd
               ELSE l>>
             \o KeptLines(s, b, k + 1, n + 1)
        ELSE IF IsCaptureLine(l) THEN KeptLines(s, b, k + 1, n)
        ELSE <<l>> \o KeptLines(s, b, k + 1, n)

RECURSIVE Accumulated(_, _, _)
\* What the invocations i.. of block b of session s append: the update
\* matchit returned, or else the pattern it was given, then the prompt line
Accumulated(s, b, i) ==
    LET invs == InvsOf(s, b).cmd_invocations
        call == CallOf(s, b, i)
    IN  IF i > Len(invs) THEN <<>>
        ELSE (IF call.res.updated # None THEN call.res.updated[1] ELSE call.pattern)
             \o <<IF invs[i].prompt.kind = "Updatable"
                  THEN call.prompt \o invs[i].cmd
                  ELSE invs[i].entire_prompt_line>>
             \o Accumulated(s, b, i + 1)

----------------------------------------------------------------------------
(* Claims about run_sessions, checked under Spec *)

\* C5: end-to-end verification: with a process that writes, after each
\* command, exactly the recorded output, the session completes, with None for
\* every block (stated for the blocks without an Updatable prompt); with a
\* process that writes one other line in place of a literal line, the session
\* fails with a match error that carries the two lines.
C5_EndToEnd ==
    /\ \A s \in DOMAIN sessions :
          (ret # None /\ ~ret[1].ok /\ ret[1].kind # "spawn" /\ s = cur)
              => ~Faithful(s)
    /\ \A s \in Finished :
          Faithful(s)
              => \A b \in 1..Len(sessions[s].blocks) :
                    HasUpdatable(s, b) \/ updated_blocks[s][b] = None
    /\ \A s \in DOMAIN sessions :
          DeviatesInOneLine(s)
              => LET kj == CHOOSE x \in Deviations(s) : TRUE
                 IN  /\ ret # None
                     /\ ret[1].kind = "match"
                     /\ ret[1].expected = Some(RecordedOutputs(s)[kj[1]][kj[2]])
                     /\ ret[1].got = Some(StrLines(printed[s][kj[1]].text)[kj[2]])

\* C6: send-after-prompt: no command is sent before its prompt is read, and
\* after a successful run the lines sent to the process of each session are
\* the commands of its transcript, in order.
C6_SendAfterPrompt ==
    /\ \A s \in DOMAIN sessions :
          Len(sent[s]) <= Cardinality({k \in 1..Len(log) : log[k].session = s})
    /\ (ret # None /\ ret[1].ok)
          => \A s \in DOMAIN sessions : sent[s] = Commands(s)

\* C7: per-invocation expectation: every call of matchit is given the
\* expected-output lines of the invocation it is made for.
C7_OwnExpectation ==
    \A k \in 1..Len(log) :
        log[k].pattern
            = InvsOf(log[k].session, log[k].block).cmd_invocations[log[k].inv].expected_output

\* C8: a rewrite preserves the untouched lines: the text of a block's result
\* holds, in order, every line of the block that is not a capture-hole, the
\* line of a command with an Updatable prompt as the observed prompt followed
\* by the command.
C8_RewritePreserves ==
    \A s \in Finished : \A b \in 1..Len(sessions[s].blocks) :
        updated_blocks[s][b] # None
            => IsSubseq(KeptLines(s, b, 1, 0), StrLines(updated_blocks[s][b][1]))

\* C9 as claimed: session isolation: when run_sessions has returned, every
\* session in which no step failed has its per-block results reported.
C9_SessionIsolation ==
    (pc = "done" /\ ret[1].kind # "panic")
        => \A s \in DOMAIN sessions \ failed :
              /\ s \in DOMAIN ret[1].blocks
              /\ Len(ret[1].blocks[s]) = Len(sessions[s].blocks)

\* C9 as amended: an error in a session ends run_sessions: it returns that
\* error and no result of any session, the session that failed is the one
\* under way, and the sessions the loop had not yet taken are never spawned.
C9_FailAborts ==
    failed # {}
        => /\ pc = "done"
           /\ ret # None
           /\ ~ret[1].ok
           /\ ret[1].kind \in {"spawn", "transport", "match"}
           /\ ret[1].blocks = <<>>
           /\ failed = {cur}
           /\ \A s \in todo :
                 /\ printed[s] = <<>>
                 /\ \A k \in 1..Len(log) : log[k].session # s

\* A match error in one session while another one has not been run, and a
\* match error after another session was completed
C9_Witness ==
    /\ ret # None
    /\ ret[1].kind = "match"
    /\ todo # {}
    /\ log[Len(log)].inv = 2

\* C10: block result: the map run_sessions returns has, for each session, one
\* entry per block, in block order; the entry is None when no call of matchit
\* for the block returned an update and none of its prompts is Updatable, and
\* else Some of the accumulated lines joined with newlines.
C10_BlockResult ==
    (ret # None /\ ret[1].ok)
        => /\ DOMAIN ret[1].blocks = DOMAIN sessions
           /\ \A s \in DOMAIN sessions :
                 /\ Len(ret[1].blocks[s]) = Len(sessions[s].blocks)
                 /\ \A b \in 1..Len(sessions[s].blocks) :
                       LET promoted ==
                               \/ HasUpdatable(s, b)
                               \/ \E k \in CallsOf(s, b) : log[k].res.updated # None
                       IN  ret[1].blocks[s][b] =
                               IF promoted
                               THEN Some(JoinLines(Accumulated(s, b, 1)))
                               ELSE None

\* A successful run of two sessions, one of them with a block that stays as
\* it is, commands included, followed by a block that is rewritten
C10_Witness ==
    /\ ret # None
    /\ ret[1].ok
    /\ DOMAIN sessions = {"s1", "s2"}
    /\ \E s \in DOMAIN sessions :
          /\ Len(sessions[s].blocks) = 2
          /\ Len(InvsOf(s, 1).cmd_invocations) >= 1
          /\ ret[1].blocks[s][1] = None
          /\ ret[1].blocks[s][2] # None

\* The calls of matchit, in the log l, that session s made
SessionCalls(l, s) == { k \in 1..Len(l) : l[k].session = s }

\* C18: fail-stop per session.  Once a step of a session has failed (spawn,
\* read_until or matchit), nothing more is read for that session, matchit is
\* not called for it again, the loops over its blocks and invocations do not
\* advance, and it never gets a result: a failed read is not retried.
C18_FailStop ==
    [][\A s \in failed :
           /\ s \in failed'
           /\ printed'[s] = printed[s]
           /\ SessionCalls(log', s) = SessionCalls(log, s)
           /\ cur' = s => (bi' = bi /\ ii' = ii)
           /\ s \notin DOMAIN updated_blocks']_vars

\* A read that fails in the first block of a session of two blocks, after a
\* read of the same session that succeeded
C18_Witness ==
    /\ failed = {cur}
    /\ ret # None /\ ret[1].kind = "transport"
    /\ Len(sessions[cur].blocks) = 2
    /\ bi = 1
    /\ ii = 2
    /\ SessionCalls(log, cur) # {}

----------------------------------------------------------------------------
(* lib.rs: iter_code_blocks and get_sessions *)

\* `const DEFAULT_PROMPT_CHAR: &str = ":"`
DEFAULT_PROMPT_CHAR == <<":">>

\* str::starts_with
starts_with(x, p) == Len(p) <= Len(x) /\ SubSeq(x, 1, Len(p)) = p

ReplPrefix == <<"r", "e", "p", "l", "-">>

\* classes.iter().filter(|x| x.starts_with("repl-")).map(|x| &x[5..]).next()
SessionNameOf(classes) ==
    LET idx == {k \in 1..Len(classes) : starts_with(classes[k], ReplPrefix)}
    IN  IF idx = {} THEN None
        ELSE Some(SliceFrom(classes[CHOOSE k \in idx : \A j \in idx : k <= j], 5))

RECURSIVE iter_code_blocks(_)
\* The PandocBlocks of the document: its code blocks with a class repl-<name>
iter_code_blocks(blocks) ==
    IF blocks = <<>> THEN <<>>
    ELSE LET block == blocks[1]
             name  == SessionNameOf(block.classes)
         IN  IF block.code_block /\ name # None
             THEN <<[session_name |-> name[1], classes |-> block.classes,
                     attrs |-> block.attrs, code |-> block.code]>>
                  \o iter_code_blocks(Tail(blocks))
             ELSE iter_code_blocks(Tail(blocks))

\* attrs.iter().filter(|(x, _)| x == key).map(|(_, y)| y).next()
FirstAttr(attrs, key) ==
    LET idx == {k \in 1..Len(attrs) : attrs[k][1] = key}
    IN  IF idx = {} THEN None
        ELSE Some(attrs[CHOOSE k \in idx : \A j \in idx : k <= j][2])

\* The patterns of the model: two literal prompts, a character class and an
\* unclosed group
Pat1 == P1

Pat2 == P2

PatBoth == <<"[", "1", "2", "]", ">">>

PatBad == <<"(">>

\* Regex::new(x): Err for the unclosed group, otherwise Ok(the regex), a
\* regex being the set of the strings it matches
RegexNew(x) ==
    IF x = PatBad THEN [ok |-> FALSE, regex |-> {}]
    ELSE IF x = PatBoth THEN [ok |-> TRUE, regex |-> {P1, P2}]
    ELSE [ok |-> TRUE, regex |-> {x}]

\* Ok(sessions) of get_sessions
GOk(ss) == [ok |-> TRUE, sessions |-> ss, kind |-> "", session |-> <<>>]

\* The four anyhow errors of get_sessions; each message holds {session_name}
GErr(kind, session_name) ==
    [ok |-> FALSE, sessions |-> <<>>, kind |-> kind, session |-> session_name]

\* sessions with session_name bound to session
Insert(ss, session_name, session) ==
    [n \in DOMAIN ss \cup {session_name} |->
        IF n = session_name THEN session ELSE ss[n]]

\* The arm Vacant(entry) of the match on sessions.entry(session_name)
Vacant(ss, session_name, shell_cmd, prompt, prompt_char, exp) ==
    IF shell_cmd = None THEN GErr("no_cmd", session_name)
    ELSE IF prompt = None THEN GErr("no_prompt", session_name)
    ELSE GOk(Insert(ss, session_name,
                    [shell_cmd |-> shell_cmd[1],
                     blocks |-> <<[prompt |-> prompt[1],
                                   prompt_char |->
                                       IF prompt_char = None
                                       THEN DEFAULT_PROMPT_CHAR
                                       ELSE prompt_char[1],
                                   expected |-> exp]>>]))

\* The arm Occupied accepting a cmd attribute on a later block
Occupied_any_cmd(ss, session_name, shell_cmd, prompt, prompt_char, exp) ==
    LET entry      == ss[session_name]
        last_block == entry.blocks[Len(entry.blocks)]
    IN  GOk(Insert(ss, session_name,
                   [shell_cmd |-> entry.shell_cmd,
                    blocks |-> Append(entry.blocks,
                        [prompt |-> IF prompt = None THEN last_block.prompt
                                    ELSE prompt[1],
                         prompt_char |-> IF prompt_char = None
                                         THEN last_block.prompt_char
                                         ELSE prompt_char[1],
                         expected |-> exp])]))

\* The arm Occupied with the default prompt_char in place of the last block's
Occupied_default_char(ss, session_name, shell_cmd, prompt, prompt_char, exp) ==
    LET entry      == ss[session_name]
        last_block == entry.blocks[Len(entry.blocks)]
    IN  IF shell_cmd # None THEN GErr("second_cmd", session_name)
        ELSE GOk(Insert(ss, session_name,
                   [shell_cmd |-> entry.shell_cmd,
                    blocks |-> Append(entry.blocks,
                        [prompt |-> IF prompt = None THEN last_block.prompt
                                    ELSE prompt[1],
                         prompt_char |-> IF prompt_char = None
                                         THEN DEFAULT_PROMPT_CHAR
                                         ELSE prompt_char[1],
                         expected |-> exp])]))

\* The arm Occupied(mut entry)
Occupied(ss, session_name, shell_cmd, prompt, prompt_char, exp) ==
    LET entry      == ss[session_name]
        last_block == entry.blocks[Len(entry.blocks)]
    IN  IF shell_cmd # None THEN GErr("second_cmd", session_name)
        ELSE GOk(Insert(ss, session_name,
                   [shell_cmd |-> entry.shell_cmd,
                    blocks |-> Append(entry.blocks,
                        [prompt |-> IF prompt = None THEN last_block.prompt
                                    ELSE prompt[1],
                         prompt_char |-> IF prompt_char = None
                                         THEN last_block.prompt_char
                                         ELSE prompt_char[1],
                         expected |-> exp])]))

\* The body of get_sessions' for loop on the PandocBlock pb: Ok(sessions) to
\* go on with, or the error that `?` or bail! returns
get_sessions_body(ss, pb) ==
    LET shell_cmd   == FirstAttr(pb.attrs, "cmd")
        prompt_attr == FirstAttr(pb.attrs, "prompt")
        prompt_char == FirstAttr(pb.attrs, "prompt_char")
        exp         == StrLines(pb.code)
    IN  IF prompt_attr # None /\ ~RegexNew(prompt_attr[1]).ok
        THEN GErr("bad_regex", pb.session_name)
        ELSE LET prompt == IF prompt_attr = None THEN None
                           ELSE Some(RegexNew(prompt_attr[1]).regex)
             IN  IF pb.session_name \notin DOMAIN ss
                 THEN Vacant(ss, pb.session_name, shell_cmd, prompt,
                             prompt_char, exp)
                 ELSE Occupied(ss, pb.session_name, shell_cmd, prompt,
                               prompt_char, exp)

----------------------------------------------------------------------------
(* get_sessions applied to every document within the bounds *)

MaxDoc == 3

ReplA == ReplPrefix \o <<"A">>

ReplB == ReplPrefix \o <<"B">>

Sh == <<"s", "h">>

Zsh == <<"z", "s", "h">>

\* Block::CodeBlock((_, classes, attrs), code)
CodeBlock(classes, attrs, code) ==
    [code_block |-> TRUE, classes |-> classes, attrs |-> attrs, code |-> code]

\* Any other Block of the document
Para == [code_block |-> FALSE, classes |-> <<>>, attrs |-> <<>>, code |-> <<>>]

\* The blocks a document is made of.  Session A: with cmd and prompt, with
\* all three attributes, with none, with a prompt only, with a prompt_char
\* only, with a cmd only, with a prompt that does not compile, with every
\* attribute twice.  Session B (named by the first repl- class of three):
\* with cmd and prompt, with none, with a prompt only.  And two blocks that
\* belong to no session.
DocBlocks ==
    { CodeBlock(<<ReplA>>, << <<"cmd", Sh>>, <<"prompt", Pat1>> >>, <<"a">>),
      CodeBlock(<<ReplA>>, << <<"prompt_char", <<"$">>>>, <<"cmd", Sh>>,
                              <<"prompt", PatBoth>> >>, <<"b", "\n", "a">>),
      CodeBlock(<<ReplA>>, <<>>, <<"b">>),
      CodeBlock(<<ReplA>>, << <<"prompt", Pat2>> >>, <<"a", "\r", "\n">>),
      CodeBlock(<<ReplA>>, << <<"prompt_char", <<"#">>>> >>, <<>>),
      CodeBlock(<<ReplA>>, << <<"cmd", Zsh>> >>, <<"a">>),
      CodeBlock(<<ReplA>>, << <<"prompt", PatBad>> >>, <<"a">>),
      CodeBlock(<<ReplA>>, << <<"prompt", Pat2>>, <<"cmd", Zsh>>,
                              <<"prompt", PatBad>>, <<"cmd", Sh>>,
                              <<"prompt_char", <<"#">>>>,
                              <<"prompt_char", <<"$">>>> >>, <<"b">>),
      CodeBlock(<< <<"x">>, ReplB, ReplA >>,
                << <<"cmd", Zsh>>, <<"prompt", Pat2>> >>, <<"b">>),
      CodeBlock(<<ReplB>>, <<>>, <<"a">>),
      CodeBlock(<<ReplB>>, << <<"prompt", Pat1>> >>, <<"a", "\n", "b">>),
      CodeBlock(<< <<"s", "h">> >>, << <<"cmd", Sh>> >>, <<"a">>),
      Para }

InitSessions ==
    /\ document \in SeqsUpTo(DocBlocks, MaxDoc)
    /\ gs_sessions = <<>>
    /\ gs_pos = 0
    /\ gs_ret = None
    /\ MatchIdle
    /\ DriverIdle
    /\ CowIdle
    /\ HoleIdle

\* One turn of the for loop of get_sessions
VisitBlock ==
    /\ gs_ret = None
    /\ gs_pos < Len(iter_code_blocks(document))
    /\ LET r == get_sessions_body(gs_sessions,
                                  iter_code_blocks(document)[gs_pos + 1])
       IN  IF r.ok
           THEN /\ gs_sessions' = r.sessions
                /\ gs_ret' = gs_ret
           ELSE /\ gs_sessions' = gs_sessions
                /\ gs_ret' = Some(r)
    /\ gs_pos' = gs_pos + 1
    /\ UNCHANGED <<document, matchVars, driverVars, cowVars, holeVars>>

\* `Ok(sessions)` once the iterator is exhausted
ReturnSessions ==
    /\ gs_ret = None
    /\ gs_pos = Len(iter_code_blocks(document))
    /\ gs_ret' = Some(GOk(gs_sessions))
    /\ UNCHANGED <<document, gs_sessions, gs_pos, matchVars, driverVars, cowVars, holeVars>>

NextSessions ==
    \/ VisitBlock
    \/ ReturnSessions

SpecSessions == InitSessions /\ [][NextSessions]_vars

----------------------------------------------------------------------------
(* What get_sessions is specified to do, stated on the document *)

\* The block at position k of the document is a code block tagged repl-<name>
TaggedAt(k) ==
    document[k].code_block /\ SessionNameOf(document[k].classes) # None

NameAt(k) == SessionNameOf(document[k].classes)[1]

SessionNames == { NameAt(k) : k \in {j \in 1..Len(document) : TaggedAt(j)} }

RECURSIVE PositionsOf(_, _)
\* The positions, from k on and in document order, of the blocks of session n
PositionsOf(n, k) ==
    IF k > Len(document) THEN <<>>
    ELSE (IF TaggedAt(k) /\ NameAt(k) = n THEN <<k>> ELSE <<>>)
         \o PositionsOf(n, k + 1)

\* The block at position k carries an attribute named key
HasAttr(k, key) ==
    \E j \in 1..Len(document[k].attrs) : document[k].attrs[j][1] = key

\* The attribute named key of the block at position k (the first one, should
\* the block carry several)
AttrAt(k, key) == FirstAttr(document[k].attrs, key)[1]

\* The block at position k is the first of its session
FirstOfSession(k) == PositionsOf(NameAt(k), 1)[1] = k

\* The block at position k breaks a rule on cmd and prompt
Offends(k) ==
    /\ TaggedAt(k)
    /\ IF FirstOfSession(k)
       THEN ~HasAttr(k, "cmd") \/ ~HasAttr(k, "prompt")
       ELSE HasAttr(k, "cmd")

\* The prompt of the block at position k does not compile
BadPromptAt(k) ==
    TaggedAt(k) /\ HasAttr(k, "prompt") /\ ~RegexNew(AttrAt(k, "prompt")).ok

\* The positions at which get_sessions has a reason to fail
Faulty == { k \in 1..Len(document) : Offends(k) \/ BadPromptAt(k) }

Max(S) == CHOOSE x \in S : \A y \in S : x >= y

\* The value of the attribute key that is the most recent at or before the
\* j-th block of session n, within that session; None when there is none
MostRecent(n, j, key) ==
    LET ps == PositionsOf(n, 1)
        js == { i \in 1..j : HasAttr(ps[i], key) }
    IN  IF js = {} THEN None ELSE Some(AttrAt(ps[Max(js)], key))

\* C13: get_sessions fails, with an error that names the session, when the
\* first block of a session lacks cmd or lacks prompt or when a later block of
\* the session carries cmd (the error is that of the first faulty block of
\* the document); and when it succeeds, every session has the cmd attribute
\* of its first block as shell_cmd and one ReplBlock per tagged code block,
\* in document order.
C13_SessionConfig ==
    gs_ret # None =>
        /\ (\E k \in 1..Len(document) : Offends(k)) =>
               /\ ~gs_ret[1].ok
               /\ gs_ret[1].session = NameAt(Min(Faulty))
               /\ ~BadPromptAt(Min(Faulty)) =>
                      gs_ret[1].kind =
                          IF ~FirstOfSession(Min(Faulty)) THEN "second_cmd"
                          ELSE IF ~HasAttr(Min(Faulty), "cmd") THEN "no_cmd"
                          ELSE "no_prompt"
        /\ gs_ret[1].ok =>
               /\ DOMAIN gs_ret[1].sessions = SessionNames
               /\ \A n \in SessionNames :
                      LET s  == gs_ret[1].sessions[n]
                          ps == PositionsOf(n, 1)
                      IN  /\ s.shell_cmd = AttrAt(ps[1], "cmd")
                          /\ Len(s.blocks) = Len(ps)
                          /\ \A j \in 1..Len(ps) :
                                 s.blocks[j].expected
                                     = StrLines(document[ps[j]].code)

\* A second cmd on the third block of the document, the second of session A,
\* after a block of session B
C13_Witness ==
    /\ Len(document) = 3
    /\ TaggedAt(1) /\ TaggedAt(2) /\ TaggedAt(3)
    /\ NameAt(1) = <<"A">> /\ NameAt(2) = <<"B">> /\ NameAt(3) = <<"A">>
    /\ HasAttr(3, "cmd")
    /\ gs_ret = Some(GErr("second_cmd", <<"A">>))

\* C14: in every session built, the prompt of each block is the regex of the
\* most recent prompt attribute at or before it in the same session, blocks of
\* other sessions in between notwithstanding, and its prompt_char is the most
\* recent prompt_char attribute at or before it in the same session, or ":".
C14_PromptInheritance ==
    (gs_ret # None /\ gs_ret[1].ok) =>
        \A n \in SessionNames :
            \A j \in 1..Len(PositionsOf(n, 1)) :
                LET b == gs_ret[1].sessions[n].blocks[j]
                IN  /\ MostRecent(n, j, "prompt") # None
                    /\ b.prompt = RegexNew(MostRecent(n, j, "prompt")[1]).regex
                    /\ b.prompt_char =
                           IF MostRecent(n, j, "prompt_char") = None
                           THEN <<":">>
                           ELSE MostRecent(n, j, "prompt_char")[1]

\* Session A's second block has no attribute and comes after a block of
\* session B with another prompt: it has the prompt and the prompt_char of
\* A's first block
C14_Witness ==
    /\ Len(document) = 3
    /\ TaggedAt(1) /\ TaggedAt(2) /\ TaggedAt(3)
    /\ NameAt(1) = <<"A">> /\ NameAt(2) = <<"B">> /\ NameAt(3) = <<"A">>
    /\ document[3].attrs = <<>>
    /\ FirstAttr(document[1].attrs, "prompt_char") = Some(<<"$">>)
    /\ gs_ret # None /\ gs_ret[1].ok
    /\ gs_ret[1].sessions[<<"A">>].blocks[2].prompt = {P1, P2}
    /\ gs_ret[1].sessions[<<"A">>].blocks[2].prompt_char = <<"$">>
    /\ gs_ret[1].sessions[<<"B">>].blocks[1].prompt = {P2}

=============================================================================
